---- MODULE Spec2Model ----
(***************************************************************************)
(* Model of backend/src/server.ts: the Express application with its five   *)
(* POST routes, the Mongoose `User` collection they share, and the         *)
(* directory multer stages uploaded files in.                              *)
(*                                                                         *)
(* A handler is an async function: it runs without interruption up to an   *)
(* `await`, and other handlers may run while it waits.  Every handler      *)
(* reads the collection once (`await User.findOne`) and writes it at most  *)
(* once (`await ...save()`).  Nothing a handler does before its read is    *)
(* visible to another handler, so the code up to the read is taken         *)
(* together with the read; a request is modelled by two steps:             *)
(*   - the step named after the route: the middleware, the handler up to   *)
(*     findOne, the read itself, and the code after it up to the response  *)
(*     or up to `await save()`;                                            *)
(*   - the ...Save step: the write reaches the collection, save() settles  *)
(*     and the response is sent.                                           *)
(* Between the two steps of one request any step of another may occur.     *)
(* The requests waiting at `await save()` form a bag: connections have no  *)
(* identity the handlers could see.                                        *)
(*                                                                         *)
(* Library behaviour the handlers rely on is modelled by what it does:     *)
(*   - Mongoose: findOne returns a local copy; save() of a new document is *)
(*     an insert, refused by the unique index on clerkUserId when the key  *)
(*     is taken; save() of a document read earlier sends its modified      *)
(*     paths only ($push of a pushed entry, $set of an assigned field).    *)
(*   - multer({ dest }): the file part is written to disk before the       *)
(*     handler runs; server.ts never removes it.                           *)
(*   - body parsers: express.json() is installed for every route ahead of  *)
(*     the payment webhook's express.raw(), so a JSON request reaches the  *)
(*     webhook handler as a parsed object, not as the bytes that were      *)
(*     signed.                                                             *)
(*   - stripe.webhooks.constructEvent: recomputes the signature over the   *)
(*     payload it is given and throws unless it equals the header's.       *)
(* Failures of the infrastructure itself (database or provider             *)
(* unreachable) are left out, except the provider refusing to create a     *)
(* checkout session.                                                       *)
(***************************************************************************)
EXTENDS Integers, Sequences, FiniteSets, Bags, TLC

\* ---------------------------------------------------------------- bounds
MaxConns  == 2      \* requests that may be in flight together
MaxStaged == 3      \* files accepted by multer over a run

\* ---------------------------------------------------------------- inputs
Keys      == {"u1"}                  \* identity keys issued by Clerk; no handler
                                     \* compares keys, one stands for any
NoKey     == ""                      \* header/body field absent or empty
FileNames == {"a.wav", "b.wav"}      \* req.file.originalname
NoFile    == "-"                     \* no multipart field named 'file'

LiveSecret   == "whsec_live"         \* the secret Stripe signs with
ForgedSecret == "whsec_forged"       \* any other signing secret
NoSig        == "nosig"              \* stripe-signature header absent
endpointSecret == LiveSecret         \* process.env.STRIPE_WEBHOOK_SECRET, as deployed
EventTypes   == {"checkout.session.completed", "payment_intent.created"}
ClerkTypes   == {"user.created", "user.updated"}

VARIABLES
    users,            \* the User collection: key -> documents with that clerkUserId
    staged,           \* number of files present in multer's dest directory
    inflight,         \* bag of requests waiting at `await save()`, with their locals
    lastRes           \* the request answered last, with its locals and status code

vars == <<users, staged, inflight, lastRes>>

\* ---------------------------------------------------------------- schema
\* A stored document.  clerkUserId is the key it is filed under; position in
\* users[k] stands for its _id.
NewDoc == [hasPaid |-> FALSE, uploads |-> <<>>]

\* `null` as returned by findOne, and the shape of a handler's local document.
NoUser == [id |-> 0, hasPaid |-> FALSE, uploads |-> <<>>]

Transcription(f) == <<"Mock transcription for file: ", f>>

UploadEntry(f) == [fileName |-> f, transcription |-> Transcription(f)]

Idle == [route |-> "none", pc |-> "idle", clerkUserId |-> NoKey, file |-> NoFile,
         type |-> "none", sig |-> NoSig, user |-> NoUser, delta |-> "none",
         status |-> 0]

\* ------------------------------------------------------------ collection
\* User.findOne({ clerkUserId }): the first document filed under the key, as a
\* local document, or null.
FindOne(k) ==
    IF Len(users[k]) = 0 THEN NoUser
    ELSE [id |-> 1, hasPaid |-> users[k][1].hasPaid, uploads |-> users[k][1].uploads]

\* Faulty variant: clerkUserId carries no unique index, no insert is refused.
NoUniqueIndex(k) == FALSE

\* The unique index on clerkUserId: an insert under a key that already has a
\* document is refused (duplicate key error, save() rejects).
DuplicateKey(k) == Len(users[k]) > 0

\* save() of a document made by `new User({ clerkUserId })`: an insert with the
\* schema defaults.
InsertUser(k) == [users EXCEPT ![k] = Append(@, NewDoc)]

\* Array.prototype.push on the local uploads array.
Push(uploads, e) == Append(uploads, e)

\* Faulty variant: save() writes the whole local document over the stored one.
SaveWholeDoc(k, user, delta) ==
    IF delta \in {"push", "set"}
    THEN [users EXCEPT ![k][user.id] = [hasPaid |-> user.hasPaid, uploads |-> user.uploads]]
    ELSE users

\* Faulty variant: the uploads array goes out as a $set of the whole local array.
SaveSetsArray(k, user, delta) ==
    CASE delta = "push" -> [users EXCEPT ![k][user.id].uploads = user.uploads]
      [] delta = "set"  -> [users EXCEPT ![k][user.id].hasPaid = user.hasPaid]
      [] OTHER -> users

\* Faulty variant: the $push carries the entitlement condition as a filter, so
\* it is applied only while the stored document still passes it.
SaveGuarded(k, user, delta) ==
    CASE delta = "push" ->
           IF users[k][user.id].hasPaid \/ Len(users[k][user.id].uploads) < 2
           THEN [users EXCEPT ![k][user.id].uploads =
                                 Append(@, user.uploads[Len(user.uploads)])]
           ELSE users
      [] delta = "set" ->
           [users EXCEPT ![k][user.id].hasPaid = user.hasPaid]
      [] OTHER -> users

\* save() of a document read earlier.  Mongoose sends the modified paths only:
\* a push on uploads goes out as $push of the new entry, an assignment to
\* hasPaid as $set of that field, and nothing else of the stored document is
\* written.
SaveDoc(k, user, delta) ==
    CASE delta = "push" ->
           [users EXCEPT ![k][user.id].uploads = Append(@, user.uploads[Len(user.uploads)])]
      [] delta = "set" ->
           [users EXCEPT ![k][user.id].hasPaid = user.hasPaid]
      [] OTHER -> users

\* ------------------------------------------------------- entitlement gate
FreeUploads == 2

\* Faulty variants of the gate: the threshold off by one; the paid bypass forgotten.
GateOffByOne(hasPaid, uploadCount) == ~hasPaid /\ uploadCount > FreeUploads

GateIgnoresPaid(hasPaid, uploadCount) == uploadCount >= FreeUploads

\* TRUE when the upload is refused.
GateDenies(hasPaid, uploadCount) == ~hasPaid /\ uploadCount >= FreeUploads

\* ------------------------------------------------ payment webhook payload
\* The bytes Stripe posts: a JSON object, Content-Type application/json.
RawPayload(type, k) == <<"json-text", type, k>>

\* String(x) of a parsed object.
ObjectObject == <<"[object Object]", "", "">>

\* app.use(express.json()) runs for every route: it reads the stream of a JSON
\* request, parses it and marks the request as parsed.
ExpressJson(payload) == [parsed |-> TRUE, value |-> <<"object", payload[2], payload[3]>>]

\* express.raw({ type: 'application/json' }) on the route: a request already
\* parsed is passed on untouched; otherwise the body becomes the raw bytes.
ExpressRaw(body, payload) ==
    IF body.parsed THEN body ELSE [parsed |-> TRUE, value |-> payload]

WebhookBody(payload) == ExpressRaw(ExpressJson(payload), payload)

\* The stripe-signature header of a sender that signs its payload with secret s.
SignatureHeader(s, payload) == <<s, payload>>

\* The text constructEvent signs and parses: the payload when it is a string or
\* a Buffer, String(payload) otherwise.
PayloadText(value) == IF value[1] = "json-text" THEN value ELSE ObjectObject

\* Faulty variant: the event is taken from the body without checking the signature.
ConstructEventUnverified(body, header, secret) == TRUE

\* stripe.webhooks.constructEvent(body, sig, secret) returns the event when the
\* header is the signature of the payload text under the secret and the text
\* parses as JSON; it throws otherwise.
ConstructEventOk(body, header, secret) ==
    /\ header = SignatureHeader(secret, PayloadText(body.value))
    /\ PayloadText(body.value)[1] = "json-text"

\* ------------------------------------------------------------------ steps
Request(route, k) == [Idle EXCEPT !.route = route, !.clerkUserId = k]

\* res.status(code).json(...)
Respond(c, code) == [c EXCEPT !.pc = "done", !.status = code]

\* The handler stops at `await ...save()`.
AwaitSave(c, user, delta) == [c EXCEPT !.pc = "save", !.user = user, !.delta = delta]

\* What is kept of an answered request: the request, the status code, and the
\* document the handler worked on without its uploads.
Answered(c) == [c EXCEPT !.user = [@ EXCEPT !.uploads = <<>>], !.delta = "none"]

\* A connection is available for a new request.
Accepting == BagCardinality(inflight) < MaxConns

\* A new request's handler has run on to c: either it waits at
\* `await save()`, or it has sent its response.
Arrive(c) ==
    IF c.pc = "done"
    THEN inflight' = inflight /\ lastRes' = Answered(c)
    ELSE inflight' = inflight (+) SetToBag({c}) /\ lastRes' = lastRes

\* The save() that request c waits for settles and c is answered with code.
Settle(c, code) ==
    /\ inflight' = inflight (-) SetToBag({c})
    /\ lastRes' = Answered(Respond(c, code))

Init ==
    /\ users = [k \in Keys |-> <<>>]
    /\ staged = 0
    /\ inflight = EmptyBag
    /\ lastRes = Idle

\* Faulty variant: the lookup for an existing document is left out.
CreateWithoutLookup(c) == AwaitSave(c, NoUser, "insert")

\* The part of the two user-creation handlers after the key is known: an
\* existing document answers 200, otherwise `new User({ clerkUserId })` and
\* `await newUser.save()`.
FindOrCreate(c) ==
    LET existingUser == FindOne(c.clerkUserId) IN
      IF existingUser # NoUser
      THEN Respond([c EXCEPT !.user = existingUser], 200)
      ELSE AwaitSave(c, NoUser, "insert")

\* POST /api/users/create with clerkUserId k in the body, up to the response
\* or `await newUser.save()`.
UsersCreateReq(k) ==
    /\ Accepting
    /\ Arrive(IF k = NoKey THEN Respond(Request("create", k), 400)
              ELSE FindOrCreate(Request("create", k)))
    /\ UNCHANGED <<users, staged>>

UsersCreate == \E k \in Keys \cup {NoKey} : UsersCreateReq(k)

\* save settles: 201, or the unique index refuses the insert and the catch
\* block answers 500.
UsersCreateSave(c) ==
    /\ c.route = "create"
    /\ IF DuplicateKey(c.clerkUserId)
       THEN Settle(c, 500) /\ users' = users
       ELSE Settle(c, 201) /\ users' = InsertUser(c.clerkUserId)
    /\ UNCHANGED staged

\* POST /api/webhooks/clerk with { type, data: { id: k } }, up to the response
\* or `await newUser.save()`.
ClerkWebhookReq(type, k) ==
    /\ Accepting
    /\ LET c == [Request("clerk", k) EXCEPT !.type = type] IN
         Arrive(IF type = "user.created" THEN FindOrCreate(c) ELSE Respond(c, 200))
    /\ UNCHANGED <<users, staged>>

ClerkWebhook == \E type \in ClerkTypes, k \in Keys : ClerkWebhookReq(type, k)

\* save settles: 200, or the insert is refused and the catch block answers 500.
ClerkWebhookSave(c) ==
    /\ c.route = "clerk"
    /\ IF DuplicateKey(c.clerkUserId)
       THEN Settle(c, 500) /\ users' = users
       ELSE Settle(c, 200) /\ users' = InsertUser(c.clerkUserId)
    /\ UNCHANGED staged

\* Faulty variant: a missing record is created on the way (insert, then the gate on
\* the fresh document).
TranscribeCreatesUser(c) ==
    LET found == FindOne(c.clerkUserId)
        user  == IF found = NoUser THEN [NoUser EXCEPT !.id = 1] ELSE found
    IN IF GateDenies(user.hasPaid, Len(user.uploads))
       THEN Respond([c EXCEPT !.user = user], 403)
       ELSE IF c.file = NoFile
            THEN Respond([c EXCEPT !.user = user], 400)
       ELSE AwaitSave(c, [user EXCEPT !.uploads = Push(@, UploadEntry(c.file))],
                      IF found = NoUser THEN "insert" ELSE "push")

\* The transcribe handler once the key is known: 404, 403, 400, or push and
\* `await user.save()`.
TranscribeHandler(c) ==
    LET user == FindOne(c.clerkUserId) IN
      IF user = NoUser THEN Respond(c, 404)
      ELSE IF GateDenies(user.hasPaid, Len(user.uploads))
           THEN Respond([c EXCEPT !.user = user], 403)
      ELSE IF c.file = NoFile
           THEN Respond([c EXCEPT !.user = user], 400)
      ELSE AwaitSave(c, [user EXCEPT !.uploads = Push(@, UploadEntry(c.file))], "push")

\* POST /api/voice/transcribe with header clerk-user-id k and file part f:
\* upload.single('file') stores the file part, if any, under uploads/; then
\* the handler runs up to the response or `await user.save()`.
TranscribeReq(k, f) ==
    /\ Accepting
    /\ f # NoFile => staged < MaxStaged
    /\ staged' = IF f # NoFile THEN staged + 1 ELSE staged
    /\ LET c == [Request("transcribe", k) EXCEPT !.file = f] IN
         Arrive(IF k = NoKey THEN Respond(c, 401) ELSE TranscribeHandler(c))
    /\ UNCHANGED users

Transcribe == \E k \in Keys \cup {NoKey}, f \in FileNames \cup {NoFile} : TranscribeReq(k, f)

\* save settles; res.json({ transcription }).
TranscribeSave(c) ==
    /\ c.route = "transcribe"
    /\ users' = SaveDoc(c.clerkUserId, c.user, c.delta)
    /\ Settle(c, 200)
    /\ UNCHANGED staged

\* The block both payment handlers share: findOne; if there is a user,
\* `user.hasPaid = true` and `await user.save()`; otherwise the 200 answer.
\* Assigning true to a hasPaid that is already true modifies nothing.
MarkPaid(c) ==
    LET user == FindOne(c.clerkUserId) IN
      IF user = NoUser THEN Respond(c, 200)
      ELSE AwaitSave(c, [user EXCEPT !.hasPaid = TRUE],
                     IF user.hasPaid THEN "none" ELSE "set")

\* POST /api/payment/create-checkout-session with header clerk-user-id k: the
\* key check, the call to stripe.checkout.sessions.create (which may reject:
\* 500), then the block above.
CreateCheckoutSessionReq(k, providerOk) ==
    /\ Accepting
    /\ Arrive(IF k = NoKey THEN Respond(Request("checkout", k), 401)
              ELSE IF ~providerOk THEN Respond(Request("checkout", k), 500)
              ELSE MarkPaid(Request("checkout", k)))
    /\ UNCHANGED <<users, staged>>

CreateCheckoutSession ==
    \E k \in Keys \cup {NoKey}, providerOk \in BOOLEAN : CreateCheckoutSessionReq(k, providerOk)

\* The payment-webhook handler on the body the parsers left and the
\* stripe-signature header.
WebhookHandler(c, body, header) ==
    IF endpointSecret = NoKey THEN Respond(c, 500)
    ELSE IF ~ConstructEventOk(body, header, endpointSecret) THEN Respond(c, 400)
    ELSE IF c.type = "checkout.session.completed" /\ c.clerkUserId # NoKey
         THEN MarkPaid(c)
    ELSE Respond(c, 200)

\* POST /api/payment/webhook: a sender holding secret s (or sending no
\* signature) posts an event of the given type whose metadata names k.
PaymentWebhookReq(s, type, k) ==
    /\ Accepting
    /\ LET payload == RawPayload(type, k)
           c       == [Request("webhook", k) EXCEPT !.type = type, !.sig = s]
       IN Arrive(WebhookHandler(c, WebhookBody(payload), SignatureHeader(s, payload)))
    /\ UNCHANGED <<users, staged>>

PaymentWebhook ==
    \E s \in {LiveSecret, ForgedSecret, NoSig}, type \in EventTypes, k \in Keys \cup {NoKey} :
        PaymentWebhookReq(s, type, k)

\* save of the payment block settles; res.json({ url }) or
\* res.json({ received: true }).
PaymentSave(c) ==
    /\ c.route \in {"checkout", "webhook"}
    /\ users' = SaveDoc(c.clerkUserId, c.user, c.delta)
    /\ Settle(c, 200)
    /\ UNCHANGED staged

Next ==
    \/ UsersCreate
    \/ ClerkWebhook
    \/ Transcribe
    \/ CreateCheckoutSession
    \/ PaymentWebhook
    \/ \E c \in BagToSet(inflight) : UsersCreateSave(c)
    \/ \E c \in BagToSet(inflight) : ClerkWebhookSave(c)
    \/ \E c \in BagToSet(inflight) : TranscribeSave(c)
    \/ \E c \in BagToSet(inflight) : PaymentSave(c)

Spec == Init /\ [][Next]_vars

\* Requests handled one after another: a request is taken up only when no
\* other is waiting for its save().
Quiet == inflight = EmptyBag

SeqNext ==
    \/ Quiet /\ UsersCreate
    \/ Quiet /\ ClerkWebhook
    \/ Quiet /\ Transcribe
    \/ Quiet /\ CreateCheckoutSession
    \/ Quiet /\ PaymentWebhook
    \/ \E c \in BagToSet(inflight) : UsersCreateSave(c)
    \/ \E c \in BagToSet(inflight) : ClerkWebhookSave(c)
    \/ \E c \in BagToSet(inflight) : TranscribeSave(c)
    \/ \E c \in BagToSet(inflight) : PaymentSave(c)

SeqSpec == Init /\ [][SeqNext]_vars

\* ----------------------------------------------------------------- claims
Registered(k) == Len(users[k]) > 0

Pending == BagToSet(inflight)

\* C1 (SeqSpec): with requests handled one after another, an upload with a
\* key and a file for an unpaid user is taken on while the user has fewer
\* than two uploads and then answered 200 with exactly one entry appended
\* (never taking the user beyond two); with two or more uploads it is answered
\* 403 and nothing is written.
C1_FreeTierGate ==
    [][ /\ \A k \in Keys, f \in FileNames :
             (TranscribeReq(k, f) /\ Registered(k) /\ ~users[k][1].hasPaid) =>
                IF Len(users[k][1].uploads) >= 2
                THEN /\ lastRes'.route = "transcribe" /\ lastRes'.status = 403
                     /\ users' = users /\ inflight' = inflight
                ELSE \E c \in BagToSet(inflight') :
                        c.route = "transcribe" /\ c.clerkUserId = k /\ c.file = f
        /\ \A c \in Pending :
             (TranscribeSave(c) /\ ~c.user.hasPaid) =>
                /\ lastRes'.route = "transcribe" /\ lastRes'.status = 200
                /\ users'[c.clerkUserId][1].uploads =
                      Append(users[c.clerkUserId][1].uploads, UploadEntry(c.file))
                /\ Len(users'[c.clerkUserId][1].uploads) <= 2
      ]_vars

\* The third upload of an unpaid user has just been refused.
C1_Witness ==
    /\ lastRes.route = "transcribe" /\ lastRes.status = 403 /\ lastRes.file # NoFile
    /\ Registered(lastRes.clerkUserId)
    /\ ~users[lastRes.clerkUserId][1].hasPaid
    /\ Len(users[lastRes.clerkUserId][1].uploads) = 2

\* C2: an upload with a key and a file for a user whose record has
\* hasPaid = true is never refused by the gate, whatever the number of
\* uploads: the handler goes on to save, and the save is answered 200 with the
\* entry appended.
C2_PaidNeverDenied ==
    [][ /\ \A k \in Keys, f \in FileNames :
             (TranscribeReq(k, f) /\ Registered(k) /\ users[k][1].hasPaid) =>
                /\ lastRes' = lastRes
                /\ \E c \in BagToSet(inflight') :
                      /\ c.route = "transcribe" /\ c.clerkUserId = k /\ c.file = f
                      /\ CopiesIn(c, inflight') = CopiesIn(c, inflight) + 1
        /\ \A c \in Pending :
             (TranscribeSave(c) /\ c.user.hasPaid) =>
                /\ lastRes'.route = "transcribe" /\ lastRes'.status = 200
                /\ users'[c.clerkUserId][1].uploads =
                      Append(users[c.clerkUserId][1].uploads, UploadEntry(c.file))
      ]_vars

\* A paid user's third upload has just been answered 200.
C2_Witness ==
    /\ lastRes.route = "transcribe" /\ lastRes.status = 200 /\ lastRes.user.hasPaid
    /\ Len(users[lastRes.clerkUserId][1].uploads) >= 3

\* C3: hasPaid of a user turns true only in the step that completes a
\* payment webhook for that user; creating a checkout session does not.
C3_PaidOnlyByWebhook ==
    [][ \A k \in Keys :
          (Registered(k) /\ ~users[k][1].hasPaid /\ users'[k][1].hasPaid) =>
             \E c \in Pending :
                c.route = "webhook" /\ c.clerkUserId = k /\ PaymentSave(c)
      ]_vars

\* C4: a payment webhook whose stripe-signature is not the signature of its
\* payload under the endpoint secret (another secret, or no header) is
\* answered 400, writes nothing to the collection and leaves no handler waiting,
\* whatever its event type and metadata.
C4_BadSignatureRejected ==
    [][ \A s \in {ForgedSecret, NoSig}, type \in EventTypes, k \in Keys \cup {NoKey} :
          PaymentWebhookReq(s, type, k) =>
             /\ lastRes'.route = "webhook" /\ lastRes'.status = 400
             /\ lastRes'.sig = s /\ lastRes'.type = type
             /\ users' = users
             /\ inflight' = inflight
      ]_vars

\* A forged "completed" event naming a registered, unpaid user was answered 400.
C4_Witness ==
    /\ lastRes.route = "webhook" /\ lastRes.status = 400
    /\ lastRes.sig = ForgedSecret /\ lastRes.type = "checkout.session.completed"
    /\ lastRes.clerkUserId \in Keys
    /\ Registered(lastRes.clerkUserId)
    /\ ~users[lastRes.clerkUserId][1].hasPaid

\* C5: a payment webhook signed with the endpoint secret, of type
\* checkout.session.completed, whose metadata names a registered user, is
\* accepted: the handler goes on to save hasPaid = true for that user (and
\* that save is answered 200 with hasPaid true and uploads untouched).
C5_ValidWebhookSetsPaid ==
    [][ /\ \A k \in Keys :
             (PaymentWebhookReq(endpointSecret, "checkout.session.completed", k)
                /\ Registered(k)) =>
                \E c \in BagToSet(inflight') :
                   c.route = "webhook" /\ c.clerkUserId = k /\ c.user.hasPaid
        /\ \A c \in Pending :
             (c.route = "webhook" /\ PaymentSave(c)) =>
                /\ lastRes'.status = 200
                /\ users'[c.clerkUserId][1].hasPaid
                /\ users'[c.clerkUserId][1].uploads = users[c.clerkUserId][1].uploads
      ]_vars

\* C6: a creation request (POST /api/users/create, or the Clerk user.created
\* webhook) for a key that already has a record is answered 200, adds no
\* record, changes no record and leaves no handler waiting.
C6_CreateExistingIsNoOp ==
    [][ \A k \in Keys :
          (Registered(k) /\ (UsersCreateReq(k) \/ ClerkWebhookReq("user.created", k))) =>
             /\ lastRes'.status = 200
             /\ lastRes'.route \in {"create", "clerk"}
             /\ users' = users
             /\ inflight' = inflight
      ]_vars

\* POST /api/users/create for a user who has uploads and has paid was answered
\* 200, and the key still has its one record.
C6_Witness ==
    /\ lastRes.route = "create" /\ lastRes.status = 200
    /\ lastRes.clerkUserId \in Keys
    /\ Len(users[lastRes.clerkUserId]) = 1
    /\ users[lastRes.clerkUserId][1].hasPaid
    /\ Len(users[lastRes.clerkUserId][1].uploads) >= 1

\* C7: in every step every stored record stays, a record's hasPaid once true
\* stays true, and a record that appears has hasPaid = false.
C7_HasPaidMonotonic ==
    [][ \A k \in Keys :
          /\ Len(users'[k]) >= Len(users[k])
          /\ \A i \in 1 .. Len(users[k]) :
                users[k][i].hasPaid => users'[k][i].hasPaid
          /\ \A i \in (Len(users[k]) + 1) .. Len(users'[k]) :
                ~users'[k][i].hasPaid
      ]_vars

\* An upload that read hasPaid = false was saved and answered after the
\* payment block had set hasPaid, and the record says paid.
C7_Witness ==
    /\ lastRes.route = "transcribe" /\ lastRes.status = 200
    /\ ~lastRes.user.hasPaid
    /\ users[lastRes.clerkUserId][1].hasPaid
    /\ Len(users[lastRes.clerkUserId][1].uploads) >= 1

\* C8 as claimed: a transcription attempt with a key that has no record
\* creates the record, or at least goes on (to a save) instead of being
\* turned away.
C8_UploadCreatesRecord ==
    [][ \A k \in Keys, f \in FileNames \cup {NoFile} :
          (TranscribeReq(k, f) /\ ~Registered(k)) =>
             \/ Len(users'[k]) = 1
             \/ inflight' # inflight
      ]_vars

\* C8 amended: a transcription attempt with a key that has no record is
\* answered 404 and creates nothing; a record appears only in the save of a
\* POST /api/users/create or of a Clerk user.created webhook for its key.
C8_UploadNeedsRecord ==
    [][ /\ \A k \in Keys, f \in FileNames \cup {NoFile} :
             (TranscribeReq(k, f) /\ ~Registered(k)) =>
                /\ lastRes'.route = "transcribe" /\ lastRes'.status = 404
                /\ users' = users
                /\ inflight' = inflight
        /\ \A k \in Keys :
             Len(users'[k]) > Len(users[k]) =>
                \E c \in Pending :
                   /\ c.clerkUserId = k
                   /\ \/ c.route = "create" /\ UsersCreateSave(c)
                      \/ c.route = "clerk" /\ ClerkWebhookSave(c)
      ]_vars

\* An upload with a file for a key without a record was answered 404, and the
\* key still has no record.
C8_Witness ==
    /\ lastRes.route = "transcribe" /\ lastRes.status = 404
    /\ lastRes.file # NoFile
    /\ lastRes.clerkUserId \in Keys
    /\ ~Registered(lastRes.clerkUserId)

\* Transcribe requests with a file part that have not been answered yet.
StagedInFlight ==
    LET T == {c \in Pending : c.route = "transcribe" /\ c.file # NoFile}
        n[S \in SUBSET T] ==
            IF S = {} THEN 0
            ELSE LET c == CHOOSE x \in S : TRUE IN CopiesIn(c, inflight) + n[S \ {c}]
    IN n[T]

\* C9: the files under uploads/ are those of requests not answered yet: no
\* staged file outlives its request.
C9_StagedFilesReleased == staged <= StagedInFlight

\* C10: every stored record stays; a record's uploads change only in the step
\* that saves a transcribe request of its user and answers it 200, and then by
\* exactly one entry, for that request's file, appended at the end; a record
\* that appears has no uploads.
C10_UploadsAppendOnly ==
    [][ \A k \in Keys :
          /\ Len(users'[k]) >= Len(users[k])
          /\ \A i \in 1 .. Len(users[k]) :
                \/ users'[k][i].uploads = users[k][i].uploads
                \/ \E c \in Pending :
                      /\ c.route = "transcribe" /\ c.clerkUserId = k
                      /\ TranscribeSave(c)
                      /\ lastRes'.route = "transcribe" /\ lastRes'.status = 200
                      /\ users'[k][i].uploads =
                            Append(users[k][i].uploads, UploadEntry(c.file))
          /\ \A i \in (Len(users[k]) + 1) .. Len(users'[k]) :
                users'[k][i].uploads = <<>>
      ]_vars

\* Two different files were uploaded and sit in the order of their saves; the
\* second was just answered 200.
C10_Witness ==
    /\ lastRes.route = "transcribe" /\ lastRes.status = 200 /\ lastRes.file = "b.wav"
    /\ users[lastRes.clerkUserId][1].uploads = <<UploadEntry("a.wav"), UploadEntry("b.wav")>>

\* C11: the entitlement check and the append are two steps with no guard
\* between them.  The check is made on the copy read at arrival, whatever
\* other uploads of the same user are waiting for their save: an upload with
\* a key and a file for an unpaid user whose stored record has fewer than two
\* uploads passes and waits for its save.  The save then appends its entry to
\* whatever the stored record holds by then and is answered 200; the gate is
\* not looked at again.  So two uploads that both read before either saves
\* both append.
C11_RaceWindow ==
    [][ /\ \A k \in Keys, f \in FileNames :
             (/\ TranscribeReq(k, f)
              /\ Registered(k)
              /\ ~users[k][1].hasPaid
              /\ Len(users[k][1].uploads) < FreeUploads) =>
                /\ lastRes' = lastRes
                /\ users' = users
                /\ \E c \in BagToSet(inflight') :
                      /\ c.route = "transcribe" /\ c.clerkUserId = k /\ c.file = f
                      /\ c.pc = "save"
                      /\ CopiesIn(c, inflight') = CopiesIn(c, inflight) + 1
        /\ \A c \in Pending :
             TranscribeSave(c) =>
                /\ users'[c.clerkUserId][1].uploads =
                      Append(users[c.clerkUserId][1].uploads, UploadEntry(c.file))
                /\ users'[c.clerkUserId][1].hasPaid = users[c.clerkUserId][1].hasPaid
                /\ lastRes'.route = "transcribe" /\ lastRes'.status = 200
      ]_vars

\* An unpaid user holds more than two uploads, the last of them stored by an
\* upload just answered 200.
C11_Witness ==
    /\ lastRes.route = "transcribe" /\ lastRes.status = 200
    /\ Registered(lastRes.clerkUserId)
    /\ ~users[lastRes.clerkUserId][1].hasPaid
    /\ Len(users[lastRes.clerkUserId][1].uploads) > FreeUploads

\* C12: every identity key has at most one record, whatever the interleaving
\* of the requests; and no step removes a record: the records filed under a
\* key are never fewer after a step than before it.  A creation request
\* whose insert comes after another one's for the same key is refused by the
\* unique index and answered 500 with the collection left as it was.
C12_OneRecordPerKey ==
    /\ [](\A k \in Keys : Len(users[k]) <= 1)
    /\ [][ /\ \A k \in Keys : Len(users'[k]) >= Len(users[k])
           /\ \A c \in Pending :
                ((UsersCreateSave(c) \/ ClerkWebhookSave(c)) /\ Registered(c.clerkUserId)) =>
                   users' = users /\ lastRes'.status = 500
         ]_vars

\* A user.created webhook found no record for its key, another creation for
\* the same key was saved while it waited, and its own insert has just been
\* refused: the key has its one record.
C12_Witness ==
    /\ lastRes.route = "clerk" /\ lastRes.type = "user.created"
    /\ lastRes.status = 500
    /\ Len(users[lastRes.clerkUserId]) = 1

====
